---- MODULE Spec2Model ----
(***************************************************************************)
(* Model of src/Rust/src/shared/bundle.rs: the release file-name grammar  *)
(* (parse_package_file_name), the manifest decoder                        *)
(* (read_manifest_from_string) and the archive accessor (BundleInfo).     *)
(*                                                                         *)
(* Text is a sequence of one-character strings.  Option<T> is a sequence  *)
(* of length 0 (None) or 1 (Some).                                        *)
(***************************************************************************)
EXTENDS Integers, Sequences, FiniteSets, TLC

VARIABLES pc, tup, fname, parsed, xml, mres, zip, calls, disk, progress, ares, trace

vars == <<pc, tup, fname, parsed, xml, mres, zip, calls, disk, progress, ares, trace>>

None == <<>>
Some(x) == <<x>>

(***************************************************************************)
(* Characters                                                              *)
(***************************************************************************)
DigitChars == <<"0", "1", "2", "3", "4", "5", "6", "7", "8", "9">>
UpperChars == <<"A", "B", "C", "D", "E", "F", "G", "H", "I", "J", "K", "L", "M",
                "N", "O", "P", "Q", "R", "S", "T", "U", "V", "W", "X", "Y", "Z">>
LowerChars == <<"a", "b", "c", "d", "e", "f", "g", "h", "i", "j", "k", "l", "m",
                "n", "o", "p", "q", "r", "s", "t", "u", "v", "w", "x", "y", "z">>

Range(s) == {s[i] : i \in DOMAIN s}
IsDigit(c) == c \in Range(DigitChars)
IsAlpha(c) == c \in Range(UpperChars) \cup Range(LowerChars)
DigitVal(c) == (CHOOSE i \in DOMAIN DigitChars : DigitChars[i] = c) - 1

\* the (?i) flag of the patterns: letters compare by their lower-case form
Lower(c) ==
    IF c \in Range(UpperChars)
    THEN LowerChars[CHOOSE i \in DOMAIN UpperChars : UpperChars[i] = c]
    ELSE c
LowerStr(s) == [i \in DOMAIN s |-> Lower(s[i])]

Tail2(s, i) == SubSeq(s, i, Len(s))
StartsWith(s, p) == Len(s) >= Len(p) /\ SubSeq(s, 1, Len(p)) = p
EndsWith(s, p) == Len(s) >= Len(p) /\ SubSeq(s, Len(s) - Len(p) + 1, Len(s)) = p
Contains(s, p) == \E i \in 1..(Len(s) - Len(p) + 1) : SubSeq(s, i, i + Len(p) - 1) = p

\* first index >= from holding a character of set cs, Len(s)+1 when there is none
FirstIn(s, cs, from) ==
    IF \E i \in from..Len(s) : s[i] \in cs
    THEN CHOOSE i \in from..Len(s) : s[i] \in cs /\ \A j \in from..(i - 1) : s[j] \notin cs
    ELSE Len(s) + 1

\* first index >= from that holds no digit, Len(s)+1 when the digits run to the end
DigitRunEnd(s, from) ==
    IF \E i \in from..Len(s) : ~IsDigit(s[i])
    THEN CHOOSE i \in from..Len(s) : ~IsDigit(s[i]) /\ \A j \in from..(i - 1) : IsDigit(s[j])
    ELSE Len(s) + 1

RECURSIVE NumVal(_)
NumVal(s) == IF s = <<>> THEN 0 ELSE 10 * NumVal(SubSeq(s, 1, Len(s) - 1)) + DigitVal(s[Len(s)])

RECURSIVE NumStr(_)
NumStr(n) == IF n < 10 THEN <<DigitChars[n + 1]>> ELSE NumStr(n \div 10) \o <<DigitChars[(n % 10) + 1]>>

\* (0|[1-9]\d*) over a whole digit run: no leading zero
IsNumeric(s) == /\ s # <<>>
                /\ \A i \in DOMAIN s : IsDigit(s[i])
                /\ (Len(s) = 1 \/ s[1] # "0")

(***************************************************************************)
(* semver::Version::parse, as used at lines 326, 443 and 456               *)
(***************************************************************************)
IsIdentChar(c) == IsDigit(c) \/ IsAlpha(c) \/ c = "-"

\* the dot-separated identifiers of a prerelease or build string
RECURSIVE SplitDots(_)
SplitDots(s) ==
    LET d == FirstIn(s, {"."}, 1)
    IN  IF d > Len(s) THEN <<s>> ELSE <<SubSeq(s, 1, d - 1)>> \o SplitDots(Tail2(s, d + 1))

AllDigits(s) == \A i \in DOMAIN s : IsDigit(s[i])

\* a prerelease: non-empty identifiers over [0-9A-Za-z-], numeric ones without leading zero
ValidPre(s) ==
    \A k \in DOMAIN SplitDots(s) :
        LET id == SplitDots(s)[k]
        IN  /\ id # <<>>
            /\ \A i \in DOMAIN id : IsIdentChar(id[i])
            /\ (AllDigits(id) => IsNumeric(id))

\* build metadata: non-empty identifiers over [0-9A-Za-z-]
ValidBuild(s) ==
    \A k \in DOMAIN SplitDots(s) :
        LET id == SplitDots(s)[k]
        IN  id # <<>> /\ \A i \in DOMAIN id : IsIdentChar(id[i])

MkVersion(ma, mi, pa, pre, build) ==
    [major |-> ma, minor |-> mi, patch |-> pa, pre |-> pre, build |-> build]

\* Version::new(0, 0, 0)
VersionZero == MkVersion(0, 0, 0, <<>>, <<>>)

\* a parse that takes major.minor alone for a version with patch 0
VersionParse_TwoParts(s) ==
    LET d1   == FirstIn(s, {"."}, 1)
        majS == SubSeq(s, 1, d1 - 1)
        me   == DigitRunEnd(s, d1 + 1)
        minS == SubSeq(s, d1 + 1, me - 1)
    IN  IF d1 <= Len(s) /\ IsNumeric(majS) /\ IsNumeric(minS)
        THEN Some(MkVersion(NumVal(majS), NumVal(minS), 0, <<>>, <<>>))
        ELSE None

\* Ok(version) as Some(version), Err as None
VersionParse(s) ==
    LET d1   == FirstIn(s, {"."}, 1)
        majS == SubSeq(s, 1, d1 - 1)
        d2   == FirstIn(s, {"."}, d1 + 1)
        minS == SubSeq(s, d1 + 1, d2 - 1)
        pe   == DigitRunEnd(s, d2 + 1)
        patS == SubSeq(s, d2 + 1, pe - 1)
        rest == Tail2(s, pe)
        plus == FirstIn(rest, {"+"}, 1)
        preS == IF rest # <<>> /\ rest[1] = "-" THEN SubSeq(rest, 2, plus - 1) ELSE <<>>
        bldS == IF plus <= Len(rest) THEN Tail2(rest, plus + 1) ELSE <<>>
    IN  IF /\ d1 <= Len(s) /\ d2 <= Len(s)
           /\ IsNumeric(majS) /\ IsNumeric(minS) /\ IsNumeric(patS)
           /\ (rest = <<>> \/ rest[1] = "-" \/ rest[1] = "+")
           /\ (rest # <<>> /\ rest[1] = "-" => ValidPre(preS))
           /\ (plus <= Len(rest) => ValidBuild(bldS))
        THEN Some(MkVersion(NumVal(majS), NumVal(minS), NumVal(patS), preS, bldS))
        ELSE None

(***************************************************************************)
(* The file-name grammar (lines 401-467)                                   *)
(***************************************************************************)
FullTail == <<"-", "f", "u", "l", "l">>
DeltaTail == <<"-", "d", "e", "l", "t", "a">>
Nupkg == <<"n", "u", "p", "k", "g">>

\* (?i)<tail>.nupkg$ : the unescaped dot stands for any character but a line feed
SuffixMatch(s, tail) ==
    LET n == Len(tail) + 1 + Len(Nupkg)
        t == LowerStr(Tail2(s, Len(s) - n + 1))
    IN  /\ Len(s) >= n
        /\ SubSeq(t, 1, Len(tail)) = tail
        /\ t[Len(tail) + 1] # "\n"
        /\ Tail2(t, Len(tail) + 2) = Nupkg

\* ENTRY_SUFFIX_FULL
ENTRY_SUFFIX_FULL(s) == SuffixMatch(s, FullTail)

\* ENTRY_SUFFIX_DELTA
ENTRY_SUFFIX_DELTA(s) == SuffixMatch(s, DeltaTail)

\* Regex::replace(name, ""): the one match is the tail of the text
StripSuffix(s, tail) == SubSeq(s, 1, Len(s) - (Len(tail) + 1 + Len(Nupkg)))

\* ENTRY_VERSION_START matches at i: [\.-](0|[1-9]\d*)\.(0|[1-9]\d*)($|[^\d])
VersionStartAt(s, i) ==
    LET e1 == DigitRunEnd(s, i + 1)
        e2 == DigitRunEnd(s, e1 + 1)
    IN  /\ i <= Len(s) /\ s[i] \in {".", "-"}
        /\ IsNumeric(SubSeq(s, i + 1, e1 - 1))
        /\ e1 <= Len(s) /\ s[e1] = "."
        /\ IsNumeric(SubSeq(s, e1 + 1, e2 - 1))

\* a search that reports the last match instead of the leftmost one
ENTRY_VERSION_START_Last(s) ==
    IF \E i \in DOMAIN s : VersionStartAt(s, i)
    THEN Some(CHOOSE i \in DOMAIN s : VersionStartAt(s, i) /\ \A j \in (i + 1)..Len(s) : ~VersionStartAt(s, j))
    ELSE None

\* ENTRY_VERSION_START.find(s).start(): Some(leftmost index), 1-based
ENTRY_VERSION_START(s) ==
    IF \E i \in DOMAIN s : VersionStartAt(s, i)
    THEN Some(CHOOSE i \in DOMAIN s : VersionStartAt(s, i) /\ \A j \in 1..(i - 1) : ~VersionStartAt(s, j))
    ELSE None

OsNames == {<<"o", "s", "x">>, <<"w", "i", "n">>}
ArchNames == {<<"x", "6", "4">>, <<"x", "8", "6">>, <<"a", "r", "m", "6", "4">>}

\* (?:-(?<arch>x64|x86|arm64))?$ on the whole of s
ArchTail(s) ==
    IF s = <<>> THEN Some(None)
    ELSE IF s[1] = "-" /\ LowerStr(Tail2(s, 2)) \in ArchNames THEN Some(Some(Tail2(s, 2)))
    ELSE None

\* the captures of ENTRY_RID when it matches s[i..] up to the end of s, else None
RidAt(s, i) ==
    LET t == Tail2(s, i)
    IN  IF Len(t) >= 4 /\ t[1] = "-" /\ LowerStr(SubSeq(t, 2, 4)) \in OsNames
        THEN LET v0 == IF Len(t) >= 5 /\ t[5] = "." THEN 6 ELSE 5
                 ve == FirstIn(t, {c \in Range(t) : ~(IsDigit(c) \/ c = ".")}, v0)
                 at == ArchTail(Tail2(t, ve))
             IN  IF at # None
                 THEN Some([os |-> Some(SubSeq(t, 2, 4)),
                            ver |-> IF ve > v0 THEN Some(SubSeq(t, v0, ve - 1)) ELSE None,
                            arch |-> at[1]])
                 ELSE None
        ELSE IF ArchTail(t) # None
             THEN Some([os |-> None, ver |-> None, arch |-> ArchTail(t)[1]])
             ELSE None

\* ENTRY_RID.find(s).start(): the leftmost index where the pattern matches (the
\* empty match at the end, index Len(s)+1, always exists)
ENTRY_RID(s) == CHOOSE i \in 1..(Len(s) + 1) : RidAt(s, i) # None /\ \A j \in 1..(i - 1) : RidAt(s, j) = None

MkEntry(name, version, isDelta, os, ver, arch) ==
    [name |-> name, version |-> version, is_delta |-> isDelta,
     os |-> os, os_min_ver |-> ver, os_arch |-> arch]

\* parse_package_file_name: Some(EntryNameInfo) or None
parse_package_file_name(name) ==
    LET full  == ENTRY_SUFFIX_FULL(name)
        delta == ENTRY_SUFFIX_DELTA(name)
        name_and_ver == IF full THEN StripSuffix(name, FullTail) ELSE StripSuffix(name, DeltaTail)
        ver_idx == ENTRY_VERSION_START(name_and_ver)
        version == Tail2(name_and_ver, ver_idx[1] + 1)
        rid_idx == ENTRY_RID(version)
        caps == RidAt(version, rid_idx)[1]
        sv == VersionParse(SubSeq(version, 1, rid_idx - 1))
    IN  IF ~full /\ ~delta THEN None
        ELSE IF ver_idx = None THEN None
        ELSE IF sv = None THEN None
        ELSE Some(MkEntry(SubSeq(name_and_ver, 1, ver_idx[1] - 1), sv[1], delta,
                          caps.os, caps.ver, caps.arch))

(***************************************************************************)
(* File names given to the parser: the components of the grammar, rendered *)
(* as <name>-<major>.<minor>.<patch>[-<pre>][-<os>[<osver>]][-<arch>]      *)
(* followed by an ending; a tuple of two parts is rendered without its     *)
(* patch                                                                   *)
(***************************************************************************)
FullEnding == FullTail \o <<".">> \o Nupkg
DeltaEnding == DeltaTail \o <<".">> \o Nupkg

SampleNames ==
    { <<"A", "p", "p">>,
      <<"M", "y", ".", "C", "-", "A">>,
      <<"A", "-", "2", ".", "0">> }

SampleVersions == { <<1, 0, 0>>, <<1, 2, 3>>, <<10, 0, 21>> }

SamplePres ==
    { None,
      Some(<<"b", "e", "t", "a", "1">>),
      Some(<<"b", ".", "2", "2", ".", "4">>),
      Some(<<"w", "i", "n">>),
      Some(<<"x", "6", "4">>),
      Some(<<"r", "c", "-", "O", "S", "X", "1", "0">>),
      Some(<<"x", "8", "6", "-", "b">>) }

SampleOsVers == { None, Some(<<"7">>), Some(<<"1", "0", ".", "0">>) }

SampleEndings ==
    { FullEnding,
      DeltaEnding,
      <<"-", "F", "u", "l", "l", ".", "N", "U", "P", "K", "G">>,
      <<"-", "f", "u", "l", "l", "X", "n", "u", "p", "k", "g">>,
      <<"-", "d", "e", "l", "t", "a", "-", "n", "u", "p", "k", "g">>,
      <<"-", "f", "u", "l", "l", ".", "n", "u", "p", "k", "g", ".", "z", "i", "p">>,
      <<"-", "f", "u", "l", "l", ".", "z", "i", "p">>,
      <<".", "n", "u", "p", "k", "g">> }

Tuples ==
    { [name |-> n, major |-> v[1], minor |-> v[2], patch |-> v[3], parts |-> k, pre |-> p,
       os |-> o, osver |-> ov, arch |-> a, ending |-> e] :
        n \in SampleNames, v \in SampleVersions, k \in {2, 3}, p \in SamplePres,
        o \in {None} \cup {Some(x) : x \in OsNames},
        ov \in SampleOsVers,
        a \in {None} \cup {Some(x) : x \in ArchNames},
        e \in SampleEndings }

Opt(prefix, o) == IF o = None THEN <<>> ELSE prefix \o o[1]

Render(t) ==
    t.name \o <<"-">> \o NumStr(t.major) \o <<".">> \o NumStr(t.minor)
      \o (IF t.parts = 3 THEN <<".">> \o NumStr(t.patch) ELSE <<>>)
      \o Opt(<<"-">>, t.pre) \o Opt(<<"-">>, t.os) \o Opt(<<>>, t.osver) \o Opt(<<"-">>, t.arch)
      \o t.ending

IdleParse == tup = None /\ fname = <<>> /\ parsed = None
IdleManifest == xml = <<>> /\ mres = None
IdleArchive == zip = <<>> /\ calls = <<>> /\ disk = {} /\ progress = <<>> /\ ares = None /\ trace = <<>>

InitParse ==
    /\ pc = "start"
    /\ \E t \in {x \in Tuples : /\ x.os = None => x.osver = None
                                /\ x.parts = 2 => x.ending \in {FullEnding, DeltaEnding}} :
          tup = Some(t) /\ fname = Render(t)
    /\ parsed = None
    /\ IdleManifest /\ IdleArchive

\* one call of parse_package_file_name on the file name
ParsePackageFileName ==
    /\ pc = "start"
    /\ pc' = "done"
    /\ parsed' = parse_package_file_name(fname)
    /\ UNCHANGED <<tup, fname, xml, mres, zip, calls, disk, progress, ares, trace>>

NextParse == ParsePackageFileName

SpecParse == InitParse /\ [][NextParse]_vars
(***************************************************************************)
(* Claims about the file-name grammar, checked under SpecParse             *)
(***************************************************************************)
\* the text ends, letters compared case-insensitively, with the literal p
EndsWithCI(s, p) == EndsWith(LowerStr(s), p)

HasLiteralSuffix(s) == EndsWithCI(s, FullEnding) \/ EndsWithCI(s, DeltaEnding)

\* C1: a file name that does not end, case-insensitively, with the literal text
\* -full.nupkg or -delta.nupkg is answered with no-match (None).
C1_NonSuffixIsNoMatch ==
    (pc = "done" /\ ~HasLiteralSuffix(fname)) => parsed = None

\* the tuple was rendered in full, with one of the two endings of the grammar
Rendered(t) == t.parts = 3 /\ t.ending \in {FullEnding, DeltaEnding}

\* the name holds a token the version-start anchor would match
HasAnchor(n) == \E i \in DOMAIN n : VersionStartAt(n, i)

\* the EntryNameInfo that carries exactly the components of the tuple
Expected(t) ==
    MkEntry(t.name,
            MkVersion(t.major, t.minor, t.patch, IF t.pre = None THEN <<>> ELSE t.pre[1], <<>>),
            t.ending = DeltaEnding, t.os, t.osver, t.arch)

\* C2 as stated: every rendered tuple whose name holds no anchor-like token
\* parses back to exactly its components.
C2_RoundTripOriginal ==
    (pc = "done" /\ Rendered(tup[1]) /\ ~HasAnchor(tup[1].name))
        => parsed = Some(Expected(tup[1]))

\* the text after the last hyphen of s (all of s when it holds none)
RECURSIVE LastSegment(_)
LastSegment(s) ==
    LET h == FirstIn(s, {"-"}, 1)
    IN  IF h > Len(s) THEN s ELSE LastSegment(Tail2(s, h + 1))

\* win or osx, in any case, followed only by digits and dots
IsOsToken(seg) ==
    /\ Len(seg) >= 3
    /\ LowerStr(SubSeq(seg, 1, 3)) \in OsNames
    /\ \A i \in 4..Len(seg) : IsDigit(seg[i]) \/ seg[i] = "."

\* the prerelease ends in a token that reads as a platform tag: with no os in
\* the tuple, its last hyphen-separated segment is an os token, or, with no
\* arch either, an arch token
PreReadsAsRid(t) ==
    /\ t.pre # None
    /\ t.os = None
    /\ \/ IsOsToken(LastSegment(t.pre[1]))
       \/ t.arch = None /\ LowerStr(LastSegment(t.pre[1])) \in ArchNames

\* C2 amended: every rendered tuple whose name holds no anchor-like token and
\* whose prerelease does not end in a token that reads as a platform tag
\* parses back to exactly its components.
C2_RoundTrip ==
    (pc = "done" /\ Rendered(tup[1]) /\ ~HasAnchor(tup[1].name) /\ ~PreReadsAsRid(tup[1]))
        => parsed = Some(Expected(tup[1]))

\* a tuple with every optional component present was rendered and parsed back
C2_Witness ==
    /\ pc = "done" /\ Rendered(tup[1]) /\ ~HasAnchor(tup[1].name) /\ ~PreReadsAsRid(tup[1])
    /\ tup[1].pre # None /\ tup[1].os # None /\ tup[1].osver # None /\ tup[1].arch # None
    /\ tup[1].ending = DeltaEnding
    /\ parsed = Some(Expected(tup[1]))

(***************************************************************************)
(* The manifest decoder (lines 212-226, 308-378).  The XML text is given   *)
(* as the events the xml-rs reader yields for it.                          *)
(***************************************************************************)
StartElement(n) == [kind |-> "StartElement", name |-> n, text |-> <<>>]
Characters(t) == [kind |-> "Characters", name |-> "", text |-> t]
EndElement == [kind |-> "EndElement", name |-> "", text |-> <<>>]
\* Err(e): the document is structurally broken at this point
ErrEvent == [kind |-> "Err", name |-> "", text |-> <<>>]
\* every other event (StartDocument, EndDocument, Whitespace, Comment, ...)
OtherEvent == [kind |-> "Other", name |-> "", text |-> <<>>]

\* Manifest::default()
DefaultManifest ==
    [id |-> <<>>, version |-> VersionZero, title |-> <<>>, authors |-> <<>>,
     description |-> <<>>, machine_architecture |-> <<>>, runtime_dependencies |-> <<>>,
     main_exe |-> <<>>, os |-> <<>>, os_min_version |-> <<>>]

\* the field assignments of lines 322-343 but for version
AssignText(obj, el_name, text) ==
    IF el_name = "id" THEN [obj EXCEPT !.id = text]
    ELSE IF el_name = "title" THEN [obj EXCEPT !.title = text]
    ELSE IF el_name = "authors" THEN [obj EXCEPT !.authors = text]
    ELSE IF el_name = "description" THEN [obj EXCEPT !.description = text]
    ELSE IF el_name = "machineArchitecture" THEN [obj EXCEPT !.machine_architecture = text]
    ELSE IF el_name = "runtimeDependencies" THEN [obj EXCEPT !.runtime_dependencies = text]
    ELSE IF el_name = "mainExe" THEN [obj EXCEPT !.main_exe = text]
    ELSE IF el_name = "os" THEN [obj EXCEPT !.os = text]
    ELSE IF el_name = "osMinVersion" THEN [obj EXCEPT !.os_min_version = text]
    ELSE obj

\* the scan loop of lines 313-355 from event k on: the manifest as filled when
\* the loop ends, and whether Version::parse(&text)? left the function
RECURSIVE ScanEvents(_, _, _, _)
ScanEvents(events, k, obj, vec) ==
    IF k > Len(events) THEN [obj |-> obj, version_err |-> FALSE]
    ELSE LET e == events[k]
         IN  IF e.kind = "StartElement"
             THEN ScanEvents(events, k + 1, obj, Append(vec, e.name))
             ELSE IF e.kind = "Characters"
             THEN IF vec = <<>> THEN ScanEvents(events, k + 1, obj, vec)
                  ELSE IF vec[Len(vec)] = "version"
                  THEN IF VersionParse(e.text) = None
                       THEN [obj |-> obj, version_err |-> TRUE]
                       ELSE ScanEvents(events, k + 1,
                                       [obj EXCEPT !.version = VersionParse(e.text)[1]], vec)
                  ELSE ScanEvents(events, k + 1, AssignText(obj, vec[Len(vec)], e.text), vec)
             ELSE IF e.kind = "EndElement"
             THEN ScanEvents(events, k + 1, obj,
                             IF vec = <<>> THEN vec ELSE SubSeq(vec, 1, Len(vec) - 1))
             ELSE IF e.kind = "Err"
             THEN [obj |-> obj, version_err |-> FALSE]
             ELSE ScanEvents(events, k + 1, obj, vec)

Win == <<"w", "i", "n">>

\* a validation that checks version before os
ValidateVersionFirst(obj) ==
    IF obj.id = <<>> THEN "MissingId"
    ELSE IF obj.version = VersionZero THEN "MissingVersion"
    ELSE IF obj.os # <<>> /\ obj.os # Win THEN "UnsupportedOs"
    ELSE IF obj.main_exe = <<>> THEN "MissingMainExe"
    ELSE "Ok"

\* a validation without the os check
ValidateNoOs(obj) ==
    IF obj.id = <<>> THEN "MissingId"
    ELSE IF obj.version = VersionZero THEN "MissingVersion"
    ELSE IF obj.main_exe = <<>> THEN "MissingMainExe"
    ELSE "Ok"

\* the checks of lines 357-371, first failure wins
Validate(obj) ==
    IF obj.id = <<>> THEN "MissingId"
    ELSE IF obj.os # <<>> /\ obj.os # Win THEN "UnsupportedOs"
    ELSE IF obj.version = VersionZero THEN "MissingVersion"
    ELSE IF obj.main_exe = <<>> THEN "MissingMainExe"
    ELSE "Ok"

\* lines 373-375
DefaultTitle(obj) == IF obj.title = <<>> THEN [obj EXCEPT !.title = obj.id] ELSE obj

\* read_manifest_from_string: the error ("Ok" when there is none) and the
\* Manifest returned, if any
read_manifest_from_string(events) ==
    LET scan == ScanEvents(events, 1, DefaultManifest, <<>>)
    IN  IF scan.version_err THEN [error |-> "VersionParse", manifest |-> None]
        ELSE IF Validate(scan.obj) # "Ok" THEN [error |-> Validate(scan.obj), manifest |-> None]
        ELSE [error |-> "Ok", manifest |-> Some(DefaultTitle(scan.obj))]

\* the largest number of elements in a document given to the decoder
MaxFields == 4

\* element texts given to the decoder
SampleFields ==
    { <<"id", <<"A">>>>,
      <<"version", <<"1", ".", "0", ".", "0">>>>,
      <<"version", <<"0", ".", "0", ".", "0">>>>,
      <<"version", <<"1", ".", "x">>>>,
      <<"mainExe", <<"a", ".", "e", "x", "e">>>>,
      <<"title", <<"T">>>>,
      <<"os", Win>>,
      <<"os", <<"l", "i", "n", "u", "x">>>> }

RECURSIVE FieldEvents(_)
FieldEvents(fs) ==
    IF fs = <<>> THEN <<>>
    ELSE <<StartElement(fs[1][1]), Characters(fs[1][2]), EndElement>> \o FieldEvents(Tail(fs))

\* <package> around the elements; a broken document stops at its Err event
Document(fs, broken) ==
    <<OtherEvent, StartElement("package")>> \o FieldEvents(fs)
        \o (IF broken THEN <<ErrEvent>> ELSE <<EndElement, OtherEvent>>)

InitManifest ==
    /\ pc = "start"
    /\ \E n \in 0..MaxFields : \E fs \in [1..n -> SampleFields] : \E broken \in BOOLEAN :
          /\ broken => n < MaxFields
          /\ xml = Document(fs, broken)
    /\ mres = None
    /\ IdleParse /\ IdleArchive

\* one call of read_manifest_from_string on the document
ReadManifestFromString ==
    /\ pc = "start"
    /\ pc' = "done"
    /\ mres' = Some(read_manifest_from_string(xml))
    /\ UNCHANGED <<tup, fname, parsed, xml, zip, calls, disk, progress, ares, trace>>

NextManifest == ReadManifestFromString

SpecManifest == InitManifest /\ [][NextManifest]_vars

(***************************************************************************)
(* Claims about the manifest decoder, checked under SpecManifest           *)
(***************************************************************************)
\* the indices of the texts given for element el (its Characters events)
TextsOf(events, el) ==
    { k \in 2..Len(events) :
        /\ events[k].kind = "Characters"
        /\ events[k - 1].kind = "StartElement" /\ events[k - 1].name = el }

\* the last text given for element el, empty when there is none
LastText(events, el) ==
    IF TextsOf(events, el) = {} THEN <<>>
    ELSE events[CHOOSE k \in TextsOf(events, el) : \A j \in TextsOf(events, el) : j <= k].text

\* the document gives no version, or its last version text reads as 0.0.0
VersionMissing(events) ==
    \/ TextsOf(events, "version") = {}
    \/ VersionParse(LastText(events, "version")) = Some(VersionZero)

\* every version text of the document is a semantic version
VersionTextsParse(events) ==
    \A k \in TextsOf(events, "version") : VersionParse(events[k].text) # None

OsUnsupported(events) == LastText(events, "os") \notin {<<>>, Win}

\* C3: a Manifest that is returned has a non-empty id, an os that is empty or
\* "win", a version other than 0.0.0, a non-empty main_exe and a non-empty
\* title (the id when no title text was given); a document that fails one of
\* these checks gets an error and no Manifest.
C3_ReturnedManifestValid ==
    pc = "done" =>
        LET r == mres[1]
        IN  /\ (r.manifest = None) = (r.error # "Ok")
            /\ r.manifest # None =>
                  LET m == r.manifest[1]
                  IN  /\ m.id # <<>>
                      /\ m.os \in {<<>>, Win}
                      /\ m.version # VersionZero
                      /\ m.main_exe # <<>>
                      /\ m.title # <<>>
                      /\ (TextsOf(xml, "title") = {} => m.title = m.id)
            /\ ( \/ LastText(xml, "id") = <<>>
                 \/ OsUnsupported(xml)
                 \/ VersionMissing(xml)
                 \/ ~VersionTextsParse(xml)
                 \/ LastText(xml, "mainExe") = <<>> ) => r.manifest = None

\* a Manifest with os "win" and no title text was returned, titled by its id
C3_Witness ==
    /\ pc = "done"
    /\ mres[1].manifest # None
    /\ TextsOf(xml, "title") = {}
    /\ mres[1].manifest[1].os = Win
    /\ mres[1].manifest[1].title = mres[1].manifest[1].id

\* the order of the checks: no id first, then an unsupported os before a
\* missing version, then a missing version before a missing mainExe
ChecksInOrder(events, error) ==
    /\ LastText(events, "id") = <<>> => error = "MissingId"
    /\ (LastText(events, "id") # <<>> /\ OsUnsupported(events) /\ VersionMissing(events))
          => error = "UnsupportedOs"
    /\ ( /\ LastText(events, "id") # <<>> /\ ~OsUnsupported(events)
         /\ VersionMissing(events) /\ LastText(events, "mainExe") = <<>> )
          => error = "MissingVersion"

\* C4 as stated: a document without id text fails with "missing id" whatever
\* its other fields hold, an unparsable version included; with an id the os
\* check comes before the version check and that before the mainExe check.
C4_OrderOriginal ==
    pc = "done" => ChecksInOrder(xml, mres[1].error)

\* C4 amended: the order holds for every document whose version texts all
\* parse; a version text that does not parse ends the call with the version
\* parse error, before any of the checks.
C4_Order ==
    pc = "done" =>
        IF VersionTextsParse(xml) THEN ChecksInOrder(xml, mres[1].error)
        ELSE mres[1].error = "VersionParse"

\* a document with no id, an unsupported os, a zero version and no mainExe
\* was answered with "missing id"
C4_Witness ==
    /\ pc = "done"
    /\ LastText(xml, "id") = <<>>
    /\ OsUnsupported(xml)
    /\ TextsOf(xml, "version") # {} /\ VersionTextsParse(xml) /\ VersionMissing(xml)
    /\ LastText(xml, "mainExe") = <<>>
    /\ mres[1].error = "MissingId"

HasStructuralError(events) == \E k \in DOMAIN events : events[k].kind = "Err"

\* C5: a document with a structural parse error never yields a Manifest: the
\* fields filled before the error are dropped and a validation error is
\* returned (stated for the documents whose version texts parse, where the
\* scan reaches the error).
C5_BrokenDocumentFails ==
    (pc = "done" /\ HasStructuralError(xml) /\ VersionTextsParse(xml)) =>
        /\ mres[1].manifest = None
        /\ mres[1].error \in {"MissingId", "UnsupportedOs", "MissingVersion", "MissingMainExe"}

(***************************************************************************)
(* The archive accessor (lines 36-210).  An archive is the sequence of its *)
(* entries; entry i of the code (0-based) is zip[i + 1].  An entry has a   *)
(* name, its bytes, whether by_index can open it ("yes", "no", or "lost":  *)
(* it opens during the first pass over the archive and not afterwards) and *)
(* whether its bytes can be read to the end.                               *)
(***************************************************************************)
Entry(name, open, read, data) == [name |-> name, open |-> open, read |-> read, data |-> data]

\* archive.by_index(i) is Ok; first: the call belongs to the first pass
by_index_ok(z, i, first) ==
    /\ i \in 0..(Len(z) - 1)
    /\ (z[i + 1].open = "yes" \/ (z[i + 1].open = "lost" /\ first))

SplashImage == <<"s", "p", "l", "a", "s", "h", "i", "m", "a", "g", "e">>
SquirrelExe == <<"S", "q", "u", "i", "r", "r", "e", "l", ".", "e", "x", "e">>
DotNuspec == <<".", "n", "u", "s", "p", "e", "c">>

\* the closures handed to find_zip_file at lines 55, 141, 145 and 176
Predicate(which, name) ==
    IF which = "splash" THEN Contains(name, SplashImage)
    ELSE IF which = "updater" THEN EndsWith(name, SquirrelExe)
    ELSE EndsWith(name, DotNuspec)

\* find_zip_file: Some(index of the first entry that opens and whose name
\* satisfies the predicate), else None
find_zip_file(z, which, first) ==
    LET hits == { i \in 0..(Len(z) - 1) : by_index_ok(z, i, first) /\ Predicate(which, z[i + 1].name) }
    IN  IF hits = {} THEN None ELSE Some(CHOOSE i \in hits : \A j \in hits : i <= j)

\* a get_file_names that leaves out the entries that do not open
get_file_names_SkipUnreadable(z, first) ==
    LET RECURSIVE Names(_)
        Names(i) == IF i >= Len(z) THEN <<>>
                    ELSE (IF by_index_ok(z, i, first) THEN <<z[i + 1].name>> ELSE <<>>) \o Names(i + 1)
    IN  Some(Names(0))

\* get_file_names: Some(names in archive order), None (Err) when an entry does not open
get_file_names(z, first) ==
    IF \A i \in 0..(Len(z) - 1) : by_index_ok(z, i, first)
    THEN Some([k \in 1..Len(z) |-> z[k].name])
    ELSE None

\* a get_splash_bytes that hands out the bytes it read even when there are none
get_splash_bytes_NoEmptyCheck(z) ==
    LET splash_idx == find_zip_file(z, "splash", TRUE)
    IN  IF splash_idx = None THEN None
        ELSE IF ~by_index_ok(z, splash_idx[1], FALSE) THEN None
        ELSE IF ~z[splash_idx[1] + 1].read THEN None
        ELSE Some(z[splash_idx[1] + 1].data)

\* get_splash_bytes: Some(bytes) or None
get_splash_bytes(z) ==
    LET splash_idx == find_zip_file(z, "splash", TRUE)
    IN  IF splash_idx = None THEN None
        ELSE IF ~by_index_ok(z, splash_idx[1], FALSE) THEN None
        ELSE IF ~z[splash_idx[1] + 1].read THEN None
        ELSE IF z[splash_idx[1] + 1].data = <<>> THEN None
        ELSE Some(z[splash_idx[1] + 1].data)

\* fs::write(path, buffer): the file at path now holds the bytes of entry index
WriteFile(d, path, index) == {f \in d : f.path # path} \cup {[path |-> path, index |-> index]}

\* extract_zip_idx_to_path: whether it returned Ok, and the files on disk after
\* it.  fs_ok: create_dir_all and fs::write succeed for this destination.
extract_zip_idx_to_path(z, d, index, path, fs_ok) ==
    IF fs_ok /\ by_index_ok(z, index, FALSE) /\ z[index + 1].read
    THEN [ok |-> TRUE, disk |-> WriteFile(d, path, index)]
    ELSE [ok |-> FALSE, disk |-> d]

\* extract_zip_predicate_to_path: Some(index) when Ok, None when Err
extract_zip_predicate_to_path(z, d, which, path, fs_ok) ==
    LET idx == find_zip_file(z, which, FALSE)
    IN  IF idx = None THEN [idx |-> None, disk |-> d]
        ELSE LET x == extract_zip_idx_to_path(z, d, idx[1], path, fs_ok)
             IN  [idx |-> IF x.ok THEN idx ELSE None, disk |-> x.disk]

Separators == {"/", "\\"}

\* the pattern lib[\\\/][^\\\/]*[\\\/] matches key from index p on
LibMatchAt(key, p) ==
    /\ p + 3 <= Len(key)
    /\ SubSeq(key, p, p + 2) = <<"l", "i", "b">>
    /\ key[p + 3] \in Separators
    /\ FirstIn(key, Separators, p + 4) <= Len(key)

\* re.is_match(key)
LibIsMatch(key) == \E p \in DOMAIN key : LibMatchAt(key, p)

\* re.replace(key, ""): key without the leftmost match
LibStrip(key) ==
    LET p == CHOOSE q \in DOMAIN key : LibMatchAt(key, q) /\ \A r \in 1..(q - 1) : ~LibMatchAt(key, r)
    IN  SubSeq(key, 1, p - 1) \o Tail2(key, FirstIn(key, Separators, p + 4) + 1)

ExecutionStub == <<"_", "E", "x", "e", "c", "u", "t", "i", "o", "n", "S", "t", "u", "b">>

\* stub_regex.is_match(path): _ExecutionStub.exe$ with its dot unescaped
StubIsMatch(path) ==
    LET n == Len(ExecutionStub) + 4
        t == Tail2(path, Len(path) - n + 1)
    IN  /\ Len(path) >= n
        /\ SubSeq(t, 1, Len(ExecutionStub)) = ExecutionStub
        /\ t[Len(ExecutionStub) + 1] # "\n"
        /\ Tail2(t, Len(ExecutionStub) + 2) = <<"e", "x", "e">>

\* the destination of an entry, relative to current_path: replace("/", "\\")
FinalPath(rel) == [k \in DOMAIN rel |-> IF rel[k] = "/" THEN "\\" ELSE rel[k]]

SqVersion == <<"s", "q", ".", "v", "e", "r", "s", "i", "o", "n">>

RECURSIVE Pow2(_)
Pow2(k) == IF k = 0 THEN 1 ELSE 2 * Pow2(k - 1)

\* num / den rounded to the nearest integer, ties to even
RoundHalfEven(num, den) ==
    LET q == num \div den
        r == num % den
    IN  IF 2 * r < den THEN q
        ELSE IF 2 * r > den THEN q + 1
        ELSE q + (q % 2)

\* the least e with i * 2^e >= 2^23 * n
RECURSIVE NormExp(_, _, _)
NormExp(i, n, e) == IF i * Pow2(e) >= Pow2(23) * n THEN e ELSE NormExp(i, n, e + 1)

\* the number of binary digits of x above 24
RECURSIVE ExcessBits(_)
ExcessBits(x) == IF x < Pow2(24) THEN 0 ELSE 1 + ExcessBits(x \div 2)

\* ((i as f32 / n as f32) * 100.0) as i16 for 0 <= i < n: both f32 operations
\* round to 24 significant bits, the cast truncates
Percent(i, n) ==
    IF i = 0 THEN 0
    ELSE LET e == NormExp(i, n, 0)
             q == RoundHalfEven(i * Pow2(e), n)
             p == 100 * q
             s == ExcessBits(p)
             m == RoundHalfEven(p, Pow2(s))
         IN  (m * Pow2(s)) \div Pow2(e)

\* whether the loop of lines 148-169 skips entry i at line 149
SkippedByName(key, i, updater_idx) ==
    \/ Some(i) = updater_idx
    \/ ~LibIsMatch(key)
    \/ EndsWith(key, <<"/">>)
    \/ EndsWith(key, <<"\\">>)

\* the loop of lines 148-169 from position i of files on.  st holds the files
\* on disk, the values passed to progress and the extractions invoked so far;
\* fs_bad is the set of entries whose destination the filesystem refuses.
RECURSIVE ExtractLoop(_, _, _, _, _, _)
ExtractLoop(z, files, i, updater_idx, fs_bad, st) ==
    IF i >= Len(files) THEN [st EXCEPT !.status = "Ok"]
    ELSE LET key == files[i + 1]
         IN  IF SkippedByName(key, i, updater_idx)
             THEN ExtractLoop(z, files, i + 1, updater_idx, fs_bad, st)
             ELSE IF StubIsMatch(LibStrip(key))
             THEN ExtractLoop(z, files, i + 1, updater_idx, fs_bad, st)
             ELSE LET path == FinalPath(LibStrip(key))
                      x == extract_zip_idx_to_path(z, st.disk, i, path, i \notin fs_bad)
                      called == Append(st.calls, [index |-> i, path |-> path])
                  IN  IF ~x.ok
                      THEN [st EXCEPT !.status = "ErrExtract", !.calls = called]
                      ELSE ExtractLoop(z, files, i + 1, updater_idx, fs_bad,
                                       [st EXCEPT !.disk = x.disk, !.calls = called,
                                                  !.progress = Append(st.progress, Percent(i, Len(files)))])

NothingDone(status) == [status |-> status, disk |-> {}, progress |-> <<>>, calls |-> <<>>]

\* a bulk extraction that goes on when the manifest entry was not extracted
extract_lib_contents_IgnoreNuspec(z, fs_bad) ==
    LET files == get_file_names(z, TRUE)
        updater_idx == find_zip_file(z, "updater", FALSE)
    IN  IF files = None THEN NothingDone("ErrFileNames")
        ELSE ExtractLoop(z, files[1], 0, updater_idx, fs_bad,
                         [status |-> "Running", disk |-> {}, progress |-> <<>>, calls |-> <<>>])

\* extract_lib_contents_to_path into an empty current_path
extract_lib_contents_to_path(z, fs_bad) ==
    LET files == get_file_names(z, TRUE)
        updater_idx == find_zip_file(z, "updater", FALSE)
        nuspec == extract_zip_predicate_to_path(z, {}, "nuspec", SqVersion,
                      find_zip_file(z, "nuspec", FALSE) = None
                          \/ find_zip_file(z, "nuspec", FALSE)[1] \notin fs_bad)
    IN  IF files = None THEN NothingDone("ErrFileNames")
        ELSE IF nuspec.idx = None THEN NothingDone("ErrMissingNuspec")
        ELSE ExtractLoop(z, files[1], 0, updater_idx, fs_bad,
                         [status |-> "Running", disk |-> nuspec.disk, progress |-> <<>>, calls |-> <<>>])
(***************************************************************************)
(* The RefCell around the archive reader (line 22).  A call leaves in      *)
(* trace the events of its run, in order: the entry and return of every    *)
(* operation of the handle, every borrow of the cell and the drop of its   *)
(* guard at the end of the function that took it, every call of a closure  *)
(* or of the manifest decoder.                                             *)
(***************************************************************************)
Ev(kind, fn) == [kind |-> kind, fn |-> fn]

\* a call of operation fn whose body leaves the events body
InCall(fn, body) == <<Ev("call", fn)>> \o body \o <<Ev("return", fn)>>

\* let mut archive = self.zip.borrow_mut(); the guard lives to the end of fn
BorrowMut(fn, body) == <<Ev("borrow_mut", fn)>> \o body \o <<Ev("drop", fn)>>

\* let archive = self.zip.borrow()
Borrow(fn, body) == <<Ev("borrow", fn)>> \o body \o <<Ev("drop", fn)>>

\* the entries find_zip_file hands to its predicate: those that open, up to
\* and including the first hit
PredicateCalls(z, which, first) ==
    LET hit  == find_zip_file(z, which, first)
        upto == IF hit = None THEN Len(z) - 1 ELSE hit[1]
        RECURSIVE Calls(_)
        Calls(i) == IF i > upto THEN <<>>
                    ELSE (IF by_index_ok(z, i, first) THEN <<Ev("predicate", "find_zip_file")>> ELSE <<>>)
                             \o Calls(i + 1)
    IN  Calls(0)

\* calculate_size: (compressed, uncompressed) totals of the entries that
\* open; the archives enumerated store their entries uncompressed
calculate_size(z) ==
    LET RECURSIVE Total(_)
        Total(i) == IF i >= Len(z) THEN 0
                    ELSE (IF by_index_ok(z, i, TRUE) THEN Len(z[i + 1].data) ELSE 0) + Total(i + 1)
    IN  <<Total(0), Total(0)>>

calculate_size_trace(z) == InCall("calculate_size", BorrowMut("calculate_size", <<>>))

\* len
len(z) == Len(z)

len_trace(z) == InCall("len", Borrow("len", <<>>))

find_zip_file_trace(z, which, first) ==
    InCall("find_zip_file", BorrowMut("find_zip_file", PredicateCalls(z, which, first)))

get_file_names_trace(z) == InCall("get_file_names", BorrowMut("get_file_names", <<>>))

\* a get_splash_bytes that borrows the reader before it looks for the entry
get_splash_bytes_trace_BorrowFirst(z) ==
    InCall("get_splash_bytes",
           BorrowMut("get_splash_bytes", find_zip_file_trace(z, "splash", TRUE)))

get_splash_bytes_trace(z) ==
    InCall("get_splash_bytes",
           find_zip_file_trace(z, "splash", TRUE)
               \o (IF find_zip_file(z, "splash", TRUE) = None THEN <<>>
                   ELSE BorrowMut("get_splash_bytes", <<>>)))

\* dir_ok: create_dir_all at line 107 succeeds; when it fails the function
\* returns before line 110
extract_zip_idx_to_path_trace(dir_ok) ==
    InCall("extract_zip_idx_to_path",
           IF dir_ok THEN BorrowMut("extract_zip_idx_to_path", <<>>) ELSE <<>>)

extract_zip_predicate_to_path_trace(z, which, dir_ok) ==
    InCall("extract_zip_predicate_to_path",
           find_zip_file_trace(z, which, FALSE)
               \o (IF find_zip_file(z, which, FALSE) = None THEN <<>>
                   ELSE extract_zip_idx_to_path_trace(dir_ok)))

\* the events of the loop of lines 148-169 from position i of files on
RECURSIVE ExtractLoopTrace(_, _, _, _, _, _)
ExtractLoopTrace(z, files, i, updater_idx, fs_bad, dir_bad) ==
    IF i >= Len(files) THEN <<>>
    ELSE LET key == files[i + 1]
         IN  IF SkippedByName(key, i, updater_idx)
             THEN ExtractLoopTrace(z, files, i + 1, updater_idx, fs_bad, dir_bad)
             ELSE IF StubIsMatch(LibStrip(key))
             THEN ExtractLoopTrace(z, files, i + 1, updater_idx, fs_bad, dir_bad)
             ELSE extract_zip_idx_to_path_trace(~(i \in fs_bad /\ dir_bad))
                      \o (IF extract_zip_idx_to_path(z, {}, i, FinalPath(LibStrip(key)), i \notin fs_bad).ok
                          THEN <<Ev("progress", "extract_lib_contents_to_path")>>
                                   \o ExtractLoopTrace(z, files, i + 1, updater_idx, fs_bad, dir_bad)
                          ELSE <<>>)

extract_lib_contents_to_path_trace(z, fs_bad, dir_bad) ==
    LET files == get_file_names(z, TRUE)
        updater_idx == find_zip_file(z, "updater", FALSE)
        nuspec_idx == find_zip_file(z, "nuspec", FALSE)
        status == extract_lib_contents_to_path(z, fs_bad).status
    IN  InCall("extract_lib_contents_to_path",
               get_file_names_trace(z)
                   \o (IF files = None THEN <<>>
                       ELSE find_zip_file_trace(z, "updater", FALSE)
                                \o extract_zip_predicate_to_path_trace(z, "nuspec",
                                       ~(nuspec_idx # None /\ nuspec_idx[1] \in fs_bad /\ dir_bad))
                                \o (IF status = "ErrMissingNuspec" THEN <<>>
                                    ELSE ExtractLoopTrace(z, files[1], 0, updater_idx, fs_bad, dir_bad))))

\* read_manifest: the error ("Ok" when there is none) and the Manifest
read_manifest(z) ==
    LET nuspec_idx == find_zip_file(z, "nuspec", TRUE)
    IN  IF nuspec_idx = None THEN [error |-> "MissingNuspec", manifest |-> None]
        ELSE IF ~by_index_ok(z, nuspec_idx[1], FALSE) THEN [error |-> "Zip", manifest |-> None]
        ELSE IF ~z[nuspec_idx[1] + 1].read THEN [error |-> "Io", manifest |-> None]
        ELSE read_manifest_from_string(z[nuspec_idx[1] + 1].data)

read_manifest_trace(z) ==
    LET nuspec_idx == find_zip_file(z, "nuspec", TRUE)
    IN  InCall("read_manifest",
               find_zip_file_trace(z, "nuspec", TRUE)
                   \o (IF nuspec_idx = None THEN <<>>
                       ELSE BorrowMut("read_manifest",
                                IF by_index_ok(z, nuspec_idx[1], FALSE) /\ z[nuspec_idx[1] + 1].read
                                THEN <<Ev("decode", "read_manifest_from_string")>>
                                ELSE <<>>)))


(***************************************************************************)
(* Archives given to bulk extraction                                       *)
(***************************************************************************)
\* the largest number of entries of the archives enumerated in full
MaxEntries == 3

LibN == <<"l", "i", "b", "/", "n", "/">>
Bytes1 == <<1>>
Bytes2 == <<2>>

NuspecName == <<"a">> \o DotNuspec
PayloadName == LibN \o <<"a", ".", "d", "l", "l">>

ExtractEntries ==
    { Entry(NuspecName, "yes", TRUE, Bytes1),
      Entry(SquirrelExe, "yes", TRUE, Bytes1),
      Entry(LibN \o SquirrelExe, "yes", TRUE, Bytes1),
      Entry(PayloadName, "yes", TRUE, Bytes1),
      Entry(PayloadName, "no", TRUE, Bytes1),
      Entry(PayloadName, "lost", TRUE, Bytes1),
      Entry(PayloadName, "yes", FALSE, Bytes1),
      Entry(<<"x", "/">> \o LibN \o <<"b">>, "yes", TRUE, Bytes1),
      Entry(<<"l", "i", "b", "\\", "n", "\\", "c">>, "yes", TRUE, Bytes1),
      Entry(LibN \o <<"d", "/">>, "yes", TRUE, Bytes1),
      Entry(LibN \o <<"s">> \o ExecutionStub \o <<".", "e", "x", "e">>, "yes", TRUE, Bytes1),
      Entry(<<"r", ".", "t", "x", "t">>, "yes", TRUE, Bytes1) }

\* entry counts of the long archives: a manifest followed by payload files
LongTotals == {100}

LongArchive(n) ==
    [k \in 1..n |-> IF k = 1 THEN Entry(NuspecName, "yes", TRUE, Bytes1)
                    ELSE Entry(LibN \o <<"f">> \o NumStr(k), "yes", TRUE, Bytes1)]

InitExtract ==
    /\ pc = "start"
    /\ \/ \E n \in 0..MaxEntries : zip \in [1..n -> ExtractEntries]
       \/ \E n \in LongTotals : zip = LongArchive(n)
    /\ calls = <<>> /\ disk = {} /\ progress = <<>> /\ ares = None /\ trace = <<>>
    /\ IdleParse /\ IdleManifest

\* one call of extract_lib_contents_to_path; the filesystem refuses the
\* destination of at most one entry, one of the first MaxEntries, either when
\* its directory is created (dir_bad) or when the file is written
ExtractLibContentsToPath ==
    /\ pc = "start"
    /\ \E fs_bad \in {{}} \cup {{i} : i \in 0..(Len(zip) - 1) \cap 0..(MaxEntries - 1)} :
       \E dir_bad \in BOOLEAN :
          LET r == extract_lib_contents_to_path(zip, fs_bad)
          IN  /\ dir_bad => fs_bad # {}
              /\ ares' = Some(r.status)
              /\ disk' = r.disk
              /\ progress' = r.progress
              /\ calls' = r.calls
              /\ trace' = extract_lib_contents_to_path_trace(zip, fs_bad, dir_bad)
    /\ pc' = "done"
    /\ UNCHANGED <<tup, fname, parsed, xml, mres, zip>>

NextExtract == ExtractLibContentsToPath

SpecExtract == InitExtract /\ [][NextExtract]_vars

(***************************************************************************)
(* Archives given to get_splash_bytes                                      *)
(***************************************************************************)
SplashA == SplashImage \o <<".", "p">>
SplashB == <<"x", "/">> \o SplashImage

SplashEntries ==
    { Entry(NuspecName, "yes", TRUE, Bytes1),
      Entry(<<"S", "p", "l", "a", "s", "h", "I", "m", "a", "g", "e">>, "yes", TRUE, Bytes1),
      Entry(SplashA, "yes", TRUE, Bytes1),
      Entry(SplashA, "yes", TRUE, <<>>),
      Entry(SplashA, "yes", FALSE, Bytes1),
      Entry(SplashA, "no", TRUE, Bytes1),
      Entry(SplashA, "lost", TRUE, Bytes1),
      Entry(SplashB, "yes", TRUE, Bytes2),
      Entry(SplashB, "yes", TRUE, <<>>),
      Entry(SplashB, "no", TRUE, Bytes2) }

InitSplash ==
    /\ pc = "start"
    /\ \E n \in 0..MaxEntries : zip \in [1..n -> SplashEntries]
    /\ calls = <<>> /\ disk = {} /\ progress = <<>> /\ ares = None /\ trace = <<>>
    /\ IdleParse /\ IdleManifest

\* one call of get_splash_bytes
GetSplashBytes ==
    /\ pc = "start"
    /\ pc' = "done"
    /\ ares' = Some(get_splash_bytes(zip))
    /\ trace' = get_splash_bytes_trace(zip)
    /\ UNCHANGED <<tup, fname, parsed, xml, mres, zip, calls, disk, progress>>

NextSplash == GetSplashBytes

SpecSplash == InitSplash /\ [][NextSplash]_vars

(***************************************************************************)
(* Claims about bulk extraction, checked under SpecExtract                 *)
(***************************************************************************)
HasNuspecEntry(z) == \E k \in DOMAIN z : EndsWith(z[k].name, DotNuspec)

\* C6 as stated: for a bundle with no entry named *.nuspec the call returns the
\* "missing manifest" error, has written no file and has not called progress.
C6_NoNuspecOriginal ==
    (pc = "done" /\ ~HasNuspecEntry(zip)) =>
        /\ ares = Some("ErrMissingNuspec")
        /\ disk = {} /\ progress = <<>>

\* C6 amended: for a bundle with no entry named *.nuspec the call returns an
\* error, the "missing manifest" error when every entry can be opened and the
\* error of get_file_names when one cannot, and at that point has written no
\* file, invoked no extraction and has not called progress.
C6_NoNuspec ==
    (pc = "done" /\ ~HasNuspecEntry(zip)) =>
        /\ ares = Some(IF \E k \in DOMAIN zip : zip[k].open = "no"
                       THEN "ErrFileNames" ELSE "ErrMissingNuspec")
        /\ disk = {} /\ progress = <<>> /\ calls = <<>>

\* a bundle with a payload entry and no manifest got the "missing manifest"
\* error and nothing was written
C6_Witness ==
    /\ pc = "done" /\ ~HasNuspecEntry(zip)
    /\ \E k \in DOMAIN zip : zip[k] = Entry(PayloadName, "yes", TRUE, Bytes1)
    /\ ares = Some("ErrMissingNuspec")
    /\ disk = {}

\* the name starts with lib, a separator, one path segment and a separator
StartsWithLibDir(name) ==
    /\ Len(name) >= 4
    /\ SubSeq(name, 1, 3) = <<"l", "i", "b">>
    /\ name[4] \in Separators
    /\ FirstIn(name, Separators, 5) <= Len(name)

\* the name without its lib/<dir>/ prefix
StripLibDir(name) == Tail2(name, FirstIn(name, Separators, 5) + 1)

StubSuffix == ExecutionStub \o <<".", "e", "x", "e">>

\* an entry bulk extraction is to install
Installable(name) ==
    /\ StartsWithLibDir(name)
    /\ name[Len(name)] \notin Separators
    /\ ~EndsWith(name, SquirrelExe)
    /\ ~EndsWith(StripLibDir(name), StubSuffix)

\* C7: the entry loop invokes no extraction for an execution stub, an entry
\* outside the lib/<dir>/ prefix, a directory entry or an entry named
\* *Squirrel.exe, and in a successful run extracts every other entry to its
\* name without the lib/<dir>/ prefix.
C7_OnlyInstallableExtracted ==
    pc = "done" =>
        /\ \A k \in DOMAIN calls : Installable(zip[calls[k].index + 1].name)
        /\ ares = Some("Ok") =>
              \A i \in 0..(Len(zip) - 1) :
                  Installable(zip[i + 1].name) =>
                      \E k \in DOMAIN calls :
                          calls[k] = [index |-> i, path |-> FinalPath(StripLibDir(zip[i + 1].name))]

\* C8: a successful run calls progress once per archive entry.
C8_ProgressPerEntry ==
    (pc = "done" /\ ares = Some("Ok")) => Len(progress) = Len(zip)

\* C9: every value passed to progress is floor(index * 100 / total) for the
\* entry just extracted, lies in [0, 100), and the values never decrease.
C9_ProgressValues ==
    pc = "done" =>
        /\ \A k \in DOMAIN progress :
              /\ progress[k] = (calls[k].index * 100) \div Len(zip)
              /\ progress[k] >= 0 /\ progress[k] < 100
        /\ \A j, k \in DOMAIN progress : j <= k => progress[j] <= progress[k]

(***************************************************************************)
(* Claims about get_splash_bytes, checked under SpecSplash                 *)
(***************************************************************************)
\* the positions of the entries named *splashimage*
SplashNamed(z) == {k \in DOMAIN z : Contains(z[k].name, SplashImage)}

Least(S) == CHOOSE k \in S : \A j \in S : k <= j

\* C10 as stated: the result is none when no entry name contains splashimage,
\* when the first such entry cannot be opened or read, and when it is empty;
\* bytes are returned only when read completely and not empty.
C10_SplashOriginal ==
    pc = "done" =>
        /\ SplashNamed(zip) = {} => ares = Some(None)
        /\ SplashNamed(zip) # {} =>
              LET e == zip[Least(SplashNamed(zip))]
              IN  (e.open # "yes" \/ ~e.read \/ e.data = <<>>) => ares = Some(None)
        /\ ares # Some(None) =>
              \E k \in SplashNamed(zip) : zip[k].read /\ zip[k].data # <<>> /\ ares = Some(Some(zip[k].data))

\* the entries named *splashimage* that open when the search visits them
SplashFound(z) == {k \in SplashNamed(z) : z[k].open # "no"}

\* C10 amended: the search passes over entries it cannot open, so "the first
\* such entry" is the first entry named *splashimage* that opens in the search.
\* The result is none when there is no such entry, when that entry cannot be
\* opened again or read to the end, and when it is empty; otherwise the result
\* is the bytes of that entry, which are not empty.
C10_Splash ==
    pc = "done" =>
        IF SplashFound(zip) = {} THEN ares = Some(None)
        ELSE LET e == zip[Least(SplashFound(zip))]
             IN  IF e.open # "yes" \/ ~e.read \/ e.data = <<>>
                 THEN ares = Some(None)
                 ELSE ares = Some(Some(e.data))

\* the first entry named *splashimage* did not open and the bytes of a later
\* one were returned
C10_Witness ==
    /\ pc = "done"
    /\ SplashNamed(zip) # {}
    /\ zip[Least(SplashNamed(zip))].open = "no"
    /\ ares = Some(Some(Bytes2))

(***************************************************************************)
(* No partial success of the file-name grammar, checked under SpecParse    *)
(***************************************************************************)
\* Display of a semantic version: major.minor.patch[-pre][+build]
VersionText(v) ==
    NumStr(v.major) \o <<".">> \o NumStr(v.minor) \o <<".">> \o NumStr(v.patch)
      \o (IF v.pre = <<>> THEN <<>> ELSE <<"-">> \o v.pre)
      \o (IF v.build = <<>> THEN <<>> ELSE <<"+">> \o v.build)

\* the file name is the info's name, a delimiter, the info's version written
\* in full, the info's platform tag and a suffix of the length of the grammar's
WrittenInFull(f, e) ==
    \E d \in {<<".">>, <<"-">>} : \E dot \in {<<>>, <<".">>} :
        LET stem == e.name \o d \o VersionText(e.version)
                      \o (IF e.os = None THEN <<>>
                          ELSE <<"-">> \o e.os[1] \o dot \o Opt(<<>>, e.os_min_ver))
                      \o Opt(<<"-">>, e.os_arch)
        IN  /\ StartsWith(f, stem)
            /\ Len(f) - Len(stem) = Len(IF e.is_delta THEN DeltaEnding ELSE FullEnding)

\* C11: an info is returned only when the text between the version-start
\* anchor and the platform tag is a full semantic version: the file name then
\* spells the info's name, its three-part version and its platform tag; a name
\* rendered with a two-part version yields no-match.
C11_NoPartialSuccess ==
    pc = "done" =>
        /\ parsed # None => WrittenInFull(fname, parsed[1])
        /\ tup[1].parts = 2 => parsed = None

\* a name with a valid suffix and a two-part version that the version-start
\* anchor matches was answered with no-match
C11_Witness ==
    /\ pc = "done"
    /\ tup[1].parts = 2 /\ tup[1].pre = None /\ tup[1].os = None /\ tup[1].arch = None
    /\ ENTRY_SUFFIX_FULL(fname)
    /\ ENTRY_VERSION_START(StripSuffix(fname, FullTail)) # None
    /\ parsed = None

(***************************************************************************)
(* Archives given to the operations of the handle, one call at a time      *)
(***************************************************************************)
GoodManifest ==
    Document(<< <<"id", <<"A">>>>, <<"version", <<"1", ".", "0", ".", "0">>>>,
                <<"mainExe", <<"a", ".", "e", "x", "e">>>> >>, FALSE)

HandleEntries ==
    { Entry(NuspecName, "yes", TRUE, GoodManifest),
      Entry(NuspecName, "lost", TRUE, GoodManifest),
      Entry(SplashA, "yes", TRUE, Bytes1),
      Entry(PayloadName, "yes", TRUE, Bytes1),
      Entry(PayloadName, "no", TRUE, Bytes1),
      Entry(LibN \o SquirrelExe, "yes", TRUE, Bytes1) }

Predicates == {"splash", "updater", "nuspec"}

\* what the filesystem does with a destination: accept it, refuse to create
\* its directory, refuse to write the file
FsOutcomes == {"ok", "dir", "write"}

InitHandle ==
    /\ pc = "start"
    /\ \E n \in 0..MaxEntries : zip \in [1..n -> HandleEntries]
    /\ calls = <<>> /\ disk = {} /\ progress = <<>> /\ ares = None /\ trace = <<>>
    /\ IdleParse /\ IdleManifest

CalculateSize ==
    /\ pc = "start"
    /\ pc' = "done"
    /\ ares' = Some(calculate_size(zip))
    /\ trace' = calculate_size_trace(zip)
    /\ UNCHANGED <<tup, fname, parsed, xml, mres, zip, calls, disk, progress>>

FindZipFile ==
    /\ pc = "start"
    /\ pc' = "done"
    /\ \E which \in Predicates :
          /\ ares' = Some(find_zip_file(zip, which, TRUE))
          /\ trace' = find_zip_file_trace(zip, which, TRUE)
    /\ UNCHANGED <<tup, fname, parsed, xml, mres, zip, calls, disk, progress>>

\* one call of extract_zip_idx_to_path into an empty directory
ExtractZipIdxToPath ==
    /\ pc = "start"
    /\ pc' = "done"
    /\ \E index \in 0..(MaxEntries - 1) : \E fs \in FsOutcomes :
          LET path == FinalPath(LibStrip(PayloadName))
              x == extract_zip_idx_to_path(zip, {}, index, path, fs = "ok")
          IN  /\ ares' = Some(x.ok)
              /\ disk' = x.disk
              /\ calls' = <<[index |-> index, path |-> path]>>
              /\ trace' = extract_zip_idx_to_path_trace(fs # "dir")
    /\ UNCHANGED <<tup, fname, parsed, xml, mres, zip, progress>>

ExtractZipPredicateToPath ==
    /\ pc = "start"
    /\ pc' = "done"
    /\ \E which \in Predicates : \E fs \in FsOutcomes :
          LET r == extract_zip_predicate_to_path(zip, {}, which, SqVersion, fs = "ok")
          IN  /\ ares' = Some(r.idx)
              /\ disk' = r.disk
              /\ trace' = extract_zip_predicate_to_path_trace(zip, which, fs # "dir")
    /\ UNCHANGED <<tup, fname, parsed, xml, mres, zip, calls, progress>>

ReadManifest ==
    /\ pc = "start"
    /\ pc' = "done"
    /\ mres' = Some(read_manifest(zip))
    /\ trace' = read_manifest_trace(zip)
    /\ UNCHANGED <<tup, fname, parsed, xml, zip, calls, disk, progress, ares>>

LenCall ==
    /\ pc = "start"
    /\ pc' = "done"
    /\ ares' = Some(len(zip))
    /\ trace' = len_trace(zip)
    /\ UNCHANGED <<tup, fname, parsed, xml, mres, zip, calls, disk, progress>>

GetFileNames ==
    /\ pc = "start"
    /\ pc' = "done"
    /\ ares' = Some(get_file_names(zip, TRUE))
    /\ trace' = get_file_names_trace(zip)
    /\ UNCHANGED <<tup, fname, parsed, xml, mres, zip, calls, disk, progress>>

NextHandle ==
    \/ CalculateSize
    \/ GetSplashBytes
    \/ FindZipFile
    \/ ExtractZipIdxToPath
    \/ ExtractZipPredicateToPath
    \/ ExtractLibContentsToPath
    \/ ReadManifest
    \/ LenCall
    \/ GetFileNames

SpecHandle == InitHandle /\ [][NextHandle]_vars

(***************************************************************************)
(* Claims about the borrows of the reader, checked under SpecHandle        *)
(***************************************************************************)
\* the number of guards alive just before event k of t
Held(t, k) ==
    Cardinality({j \in 1..(k - 1) : t[j].kind \in {"borrow_mut", "borrow"}})
        - Cardinality({j \in 1..(k - 1) : t[j].kind = "drop"})

\* the events of kind in t
EventsOf(t, kind) == {k \in DOMAIN t : t[k].kind = kind}

\* C12: in a call of any operation of the handle, every borrow of the reader,
\* every entry into an operation of the handle and every call of the progress
\* callback happens while no guard taken earlier in the call is alive, and
\* the call returns with every guard dropped.
C12_BorrowDiscipline ==
    pc = "done" =>
        /\ \A k \in DOMAIN trace :
              trace[k].kind \in {"borrow_mut", "borrow", "call", "progress"} => Held(trace, k) = 0
        /\ Held(trace, Len(trace) + 1) = 0

\* a bulk extraction that ran its helpers one after another, each borrowing
\* the reader in turn, and reported progress between two extractions
C12_Witness ==
    /\ pc = "done"
    /\ trace # <<>> /\ trace[1].fn = "extract_lib_contents_to_path"
    /\ ares = Some("Ok")
    /\ Cardinality(EventsOf(trace, "progress")) = Len(progress)
    /\ Len(progress) >= 2
    /\ Cardinality(EventsOf(trace, "borrow_mut")) >= 6
    /\ \E k \in EventsOf(trace, "call") : k > 1 /\ trace[k].fn = "find_zip_file"
    /\ \E k \in EventsOf(trace, "predicate") : Held(trace, k) = 1

(***************************************************************************)
(* Claims about the indexes of bulk extraction, checked under SpecExtract  *)
(***************************************************************************)
\* name passes the filters of lines 149 and 157 that look at the name alone
PassesNameFilters(name) ==
    /\ LibIsMatch(name)
    /\ ~EndsWith(name, <<"/">>) /\ ~EndsWith(name, <<"\\">>)
    /\ ~StubIsMatch(LibStrip(name))

\* the indexes extract_zip_idx_to_path was invoked with by the loop
CalledIndexes == {calls[k].index : k \in DOMAIN calls}

\* C13: in a bulk extraction the list of names, when there is one, gives at
\* position i the name of archive entry i; every entry the loop extracts by
\* index carries a name that passed the filters and goes to the destination
\* derived from its own name; the entry left out as the updater is the one
\* find_zip_file found; and when an entry does not open, the call fails with
\* nothing written.
C13_IndexAlignment ==
    pc = "done" =>
        LET files == get_file_names(zip, TRUE)
            updater_idx == find_zip_file(zip, "updater", FALSE)
        IN  /\ files # None =>
                  /\ Len(files[1]) = Len(zip)
                  /\ \A i \in 0..(Len(zip) - 1) : files[1][i + 1] = zip[i + 1].name
            /\ \A k \in DOMAIN calls :
                  /\ calls[k].index \in 0..(Len(zip) - 1)
                  /\ PassesNameFilters(zip[calls[k].index + 1].name)
                  /\ calls[k].path = FinalPath(LibStrip(zip[calls[k].index + 1].name))
                  /\ Some(calls[k].index) # updater_idx
            /\ ares = Some("Ok") =>
                  \A i \in 0..(Len(zip) - 1) :
                      PassesNameFilters(zip[i + 1].name) /\ i \notin CalledIndexes
                          => Some(i) = updater_idx /\ EndsWith(zip[i + 1].name, SquirrelExe)
            /\ (\E i \in 0..(Len(zip) - 1) : zip[i + 1].open = "no")
                  <=> ares = Some("ErrFileNames")
            /\ ares = Some("ErrFileNames") => disk = {} /\ calls = <<>> /\ progress = <<>>

\* a finished extraction that left out the updater found at a later index
\* than the manifest and extracted an entry behind it by its index
C13_Witness ==
    /\ pc = "done"
    /\ ares = Some("Ok")
    /\ find_zip_file(zip, "updater", FALSE) # None
    /\ find_zip_file(zip, "updater", FALSE)[1] >= 1
    /\ PassesNameFilters(zip[find_zip_file(zip, "updater", FALSE)[1] + 1].name)
    /\ \E k \in DOMAIN calls :
          /\ calls[k].index > find_zip_file(zip, "updater", FALSE)[1]
          /\ [path |-> calls[k].path, index |-> calls[k].index] \in disk

====
